---------------------------- MODULE Spec2Model ----------------------------
(***************************************************************************)
(* KASA (src/main.py): the session router (main, login_ui, signup_ui,      *)
(* logout_action) and the page handlers of interface_kasa, one action per  *)
(* script run.  A script run is one execution of main() with at most one   *)
(* button pressed; experimental_rerun() ends the run and forces one more   *)
(* run with no button pressed.                                             *)
(*                                                                         *)
(* Texts are sequences of tokens.  A token is one character (written as    *)
(* itself, or as "U+00E9" for a character outside ASCII) or a literal      *)
(* chunk of the source ("quittance_", ".pdf", a formatted number) that     *)
(* holds none of the characters sanitize_filename replaces.                *)
(* None is the empty sequence, a present value x is <<x>>.                 *)
(***************************************************************************)
EXTENDS Integers, Sequences, FiniteSets, TLC

VARIABLES
    page,       \* st.session_state.page
    user,       \* st.session_state.user: None or <<[id, email, nom, prenom]>>
    menu,       \* st.session_state.menu_main, the sidebar selectbox
    view,       \* the branch of main() the last run rendered
    buttons,    \* the buttons the last run displayed
    rerun,      \* experimental_rerun() was called: the next run is forced
    req,        \* the interaction of the last run: button pressed and form fields
    calls,      \* the collaborator calls of the last run, in order
    msgs,       \* the status messages of the last run, in order
    crashed,    \* the last run ended with an uncaught exception
    accounts,   \* identity provider: the registered identities
    utilisateurs, \* record store, table utilisateurs
    biens,      \* record store, table biens (in insertion order)
    locataires, \* record store, table locataires
    contrats,   \* record store, table contrats
    paiements,  \* record store, table paiements
    pdf         \* the document of the last run: None, or its body and whether
                \* generate_pdf_bytes returned

vars == <<page, user, menu, view, buttons, rerun, req, calls, msgs, crashed,
          accounts, utilisateurs, biens, locataires, contrats, paiements, pdf>>

stores == <<accounts, utilisateurs, biens, locataires, contrats, paiements>>

----------------------------------------------------------------------------
(* Bounds of the model *)

MaxBiens == 2
MaxRows == 1

----------------------------------------------------------------------------
(* Values *)

None == <<>>
Some(x) == <<x>>
Truthy(t) == t # <<>>

Awa == <<"a", "w", "a", "@", "x">>
AwaCaps == <<"A", "w", "a", "@", "x">>
Emails == {<<>>, Awa, AwaCaps}
Passwords == {"", "secret123", "wrong"}
NewPasswords == {"", "secret123"}
Noms == {"", "Diop"}
Prenoms == {"", "Awa"}

Fall == <<"F", "a", "l", "l">>
LocataireNoms == {<<>>, Fall,
                  <<"N", "'", "U+2019", " ", "/", "U+00E9", "e", "U+0301", "U+0153">>}
BienNoms == {<<"V", "i", "l", "l", "a">>, <<"S", " ", "1">>}
Mars == <<"M", "a", "r", "s">>
Aout == <<"A", "o", "U+00FB", "t">>
MoisChoisis == {Mars, Aout}
Annees == {2025}
Montants == {50000}
Statuts == {"Paye", "Non paye"}
Menus == {"Ajouter un bien", "Generer contrat", "Suivi des loyers", "Tableau de bord"}

Msg(k, t) == [kind |-> k, text |-> t]
\* A collaborator call made by a button's handler, and one made by the page's
\* rendering code around it.
\* res is the answer of an identity-provider call (None for the other calls).
Call(o, a, r) == [op |-> o, arg |-> a, ok |-> r, by |-> "handler", res |-> <<>>]
RenderCall(o, a, r) == [op |-> o, arg |-> a, ok |-> r, by |-> "render", res |-> <<>>]

NoReq == [button |-> "none", form |-> <<>>]

----------------------------------------------------------------------------
(* sanitize_filename *)

Forbidden == {"\\", "/", ":", "*", "?", "\"", "<", ">", "|"}

sanitize_char(c) == IF c \in Forbidden \/ c = " " THEN "_" ELSE c

sanitize_filename(name) == [i \in DOMAIN name |-> sanitize_char(name[i])]

----------------------------------------------------------------------------
(* Identity provider (supabase.auth), as the handlers use it *)

Lower(c) == CASE c = "A" -> "a" [] c = "F" -> "f" [] c = "N" -> "n" [] OTHER -> c

CanonEmail(email) == [i \in DOMAIN email |-> Lower(email[i])]

NewUserId == <<"u", ToString(Cardinality(accounts) + 1)>>

Registered(email) == {a \in accounts : a.email = CanonEmail(email)}

\* The user objects sign_in_with_password can answer with: the identity whose
\* canonical email and password match the submitted ones.
Verified(email, password) == {[id |-> a.id, email |-> a.email] :
                                a \in {b \in Registered(email) : b.password = password}}

\* The shapes of an answer the handlers tell apart: an object with a .user
\* attribute or a dict; user and data_user are None or <<user object>>.
AuthRes(k, u, d) == [kind |-> k, user |-> u, data_user |-> d]

SignUpAnswers(u) == {AuthRes("obj", Some(u), None), AuthRes("obj", None, None),
                     AuthRes("dict", None, Some(u)), AuthRes("dict", None, None),
                     AuthRes("dict", Some(u), None)}

SignInAnswers(email, password) ==
    {AuthRes(k, Some(u), None) : k \in {"obj", "dict"}, u \in Verified(email, password)}
    \cup {AuthRes("obj", None, None), AuthRes("dict", None, None)}

\* getattr(auth_res, "user", None)
GetAttrUser(auth_res) == IF auth_res.kind = "obj" THEN auth_res.user ELSE None

\* auth_res.get("user") if isinstance(auth_res, dict) else None
DictGetUser(auth_res) == IF auth_res.kind = "dict" THEN auth_res.user ELSE None

----------------------------------------------------------------------------
(* Router *)

RenderedViewPageOnly(p, u) == IF p = "accueil" THEN "accueil" ELSE "app"

RenderedViewHomeFallback(p, u) ==
    IF p = "accueil" THEN "accueil"
    ELSE IF p = "auth" /\ u = None THEN "auth"
    ELSE IF u = None THEN "accueil"
    ELSE "app"

\* The branch of main() a run takes: "app" is the call of interface_kasa.
RenderedView(p, u) ==
    IF p = "accueil" THEN "accueil"
    ELSE IF p = "auth" /\ u = None THEN "auth"
    ELSE IF u = None THEN "login_fallback"
    ELSE "app"

Init ==
    /\ page = "accueil"
    /\ user = None
    /\ menu = "Ajouter un bien"
    /\ view = "accueil"
    /\ buttons = {"go_auth"}
    /\ rerun = FALSE
    /\ req = NoReq
    /\ calls = <<>>
    /\ msgs = <<>>
    /\ crashed = FALSE
    /\ accounts = {}
    /\ utilisateurs = {}
    /\ biens = <<>>
    /\ locataires = {}
    /\ contrats = {}
    /\ paiements = {}
    /\ pdf = None


----------------------------------------------------------------------------
(* Home page: main(), page == "accueil" *)

\* A run with the button "Acceder a l'authentification" pressed.
GoAuth ==
    /\ ~rerun
    /\ RenderedView(page, user) = "accueil"
    /\ pdf' = None
    /\ "go_auth" \in buttons
    /\ page' = "auth"
    /\ rerun' = TRUE
    /\ view' = "accueil"
    /\ buttons' = {"go_auth"}
    /\ req' = [button |-> "go_auth", form |-> <<>>]
    /\ calls' = <<>>
    /\ msgs' = <<>>
    /\ crashed' = FALSE
    /\ UNCHANGED <<user, menu, stores>>

----------------------------------------------------------------------------
(* login_ui *)

AuthRaise == AuthRes("raise", None, None)

AuthCall(o, a, auth_res) ==
    [op |-> o, arg |-> a, ok |-> auth_res # AuthRaise, by |-> "handler", res |-> auth_res]

AuthButtons == {"l_submit", "s_submit"}

\* lines 504-505: the else branch of main() warns before it shows the forms
FallbackWarning(v) ==
    IF v = "login_fallback" THEN <<Msg("warning", "Veuillez vous connecter.")>> ELSE <<>>

\* if not email or not password: st.error(...); return
LoginValidAnd(email, password) == ~(email = <<>> /\ password = "")

LoginValid(email, password) == ~(email = <<>> \/ password = "")

\* user_obj = getattr(auth_res, "user", None) or (auth_res.get("user") if dict else None)
LoginUserObj(auth_res) ==
    IF Truthy(GetAttrUser(auth_res)) THEN GetAttrUser(auth_res) ELSE DictGetUser(auth_res)

\* profil.data of select("*").eq("id", user_id) on utilisateurs
ProfilData(user_id) == {p \in utilisateurs : p.id = user_id}

\* prof_data = profil.data[0] if profil.data else {}, read with .get(field, "")
ProfGet(user_id, field) ==
    IF ProfilData(user_id) = {} THEN ""
    ELSE (CHOOSE p \in ProfilData(user_id) : TRUE)[field]

SessionUserIdAsEmail(user_obj, user_id) ==
    [id |-> user_id, email |-> user_obj.id,
     nom |-> ProfGet(user_id, "nom"), prenom |-> ProfGet(user_id, "prenom")]

\* the dict stored in st.session_state.user
SessionUser(user_obj, user_id) ==
    [id |-> user_id, email |-> user_obj.email,
     nom |-> ProfGet(user_id, "nom"), prenom |-> ProfGet(user_id, "prenom")]

LoginPageAlways(p, accepted) == "app"

\* st.session_state.page = "app" is reached only past the checks and the profile fetch
LoginPage(p, accepted) == IF accepted THEN "app" ELSE p

\* A run with "Se connecter" pressed; auth_res is the provider's answer (AuthRaise:
\* the call raised) and profOk whether the profile select succeeds.
Login(email, password, auth_res, profOk) ==
    LET user_obj == LoginUserObj(auth_res)
        signIn   == AuthCall("auth.sign_in_with_password",
                             [email |-> email, password |-> password], auth_res)
        valid    == LoginValid(email, password)
        gotUser  == valid /\ auth_res # AuthRaise /\ Truthy(user_obj)
        accepted == gotUser /\ profOk
        user_id  == user_obj[1].id
    IN  /\ ~rerun
        /\ RenderedView(page, user) \in {"auth", "login_fallback"}
        /\ "l_submit" \in buttons
        /\ pdf' = None
        /\ req' = [button |-> "l_submit",
                   form |-> [email |-> email, password |-> password]]
        /\ view' = RenderedView(page, user)
        /\ buttons' = AuthButtons
        /\ crashed' = FALSE
        /\ calls' = IF ~valid THEN <<>>
                    ELSE IF ~gotUser THEN <<signIn>>
                    ELSE <<signIn, Call("utilisateurs.select", user_id, profOk)>>
        /\ msgs' = FallbackWarning(RenderedView(page, user)) \o
                   IF ~valid THEN <<Msg("error", "Email et mot de passe requis.")>>
                   ELSE IF auth_res = AuthRaise
                        THEN <<Msg("error", "Erreur de connexion")>>
                   ELSE IF ~gotUser
                        THEN <<Msg("error", "Echec d'authentification. Verifiez vos identifiants.")>>
                   ELSE IF ~profOk THEN <<Msg("error", "Erreur de connexion")>>
                   ELSE <<Msg("success", "Connecte")>>
        /\ user' = IF accepted THEN Some(SessionUser(user_obj[1], user_id)) ELSE user
        /\ page' = LoginPage(page, accepted)
        /\ rerun' = accepted
        /\ UNCHANGED <<menu, stores>>

----------------------------------------------------------------------------
(* signup_ui *)

\* if not all([nom, prenom, email, password]): st.error(...); return
SignupValid(nom, prenom, email, password) ==
    nom # "" /\ prenom # "" /\ email # <<>> /\ password # ""

\* line 135: the answer is a dict without a user
SignupNoUserDict(auth_res) ==
    GetAttrUser(auth_res) = None /\ auth_res.kind = "dict" /\ DictGetUser(auth_res) = None

\* lines 142-144: no id can be read from the dict: "check your email", return
SignupDeferred(auth_res) == SignupNoUserDict(auth_res) /\ ~Truthy(auth_res.data_user)

\* user_id as lines 135-146 compute it (None: no id)
SignupUserId(auth_res) ==
    IF SignupNoUserDict(auth_res)
    THEN IF Truthy(auth_res.data_user) THEN auth_res.data_user[1].id ELSE None
    ELSE IF Truthy(GetAttrUser(auth_res)) THEN GetAttrUser(auth_res)[1].id ELSE None

InsertsProfileAlways(auth_res) == ~SignupDeferred(auth_res)

\* if user_id: insert the profile
InsertsProfile(auth_res) == ~SignupDeferred(auth_res) /\ Truthy(SignupUserId(auth_res))

\* A run with "Creer le compte" pressed; auth_res is the provider's answer to
\* sign_up and insertOk whether the profile insert succeeds.
Signup(nom, prenom, email, password, auth_res, insertOk) ==
    LET valid    == SignupValid(nom, prenom, email, password)
        signUp   == AuthCall("auth.sign_up", [email |-> email, password |-> password],
                             auth_res)
        accepted == valid /\ auth_res # AuthRaise
        inserts  == accepted /\ InsertsProfile(auth_res)
        row      == [id |-> SignupUserId(auth_res), nom |-> nom, prenom |-> prenom]
    IN  /\ ~rerun
        /\ RenderedView(page, user) \in {"auth", "login_fallback"}
        /\ "s_submit" \in buttons
        /\ pdf' = None
        /\ req' = [button |-> "s_submit",
                   form |-> [nom |-> nom, prenom |-> prenom,
                             email |-> email, password |-> password]]
        /\ view' = RenderedView(page, user)
        /\ buttons' = AuthButtons
        /\ crashed' = FALSE
        /\ rerun' = FALSE
        /\ calls' = IF ~valid THEN <<>>
                    ELSE IF ~inserts THEN <<signUp>>
                    ELSE <<signUp, Call("utilisateurs.insert", row, insertOk)>>
        /\ msgs' = FallbackWarning(RenderedView(page, user)) \o
                   IF ~valid THEN <<Msg("error", "Tous les champs sont obligatoires.")>>
                   ELSE IF ~accepted
                        THEN <<Msg("error", "Erreur lors de la creation du compte")>>
                   ELSE IF SignupDeferred(auth_res)
                        THEN <<Msg("success", "Compte cree. Verifiez votre email pour confirmer votre compte, puis connectez-vous.")>>
                   ELSE IF ~inserts
                        THEN <<Msg("success", "Compte cree. Verifiez votre e-mail si necessaire.")>>
                   ELSE IF ~insertOk
                        THEN <<Msg("error", "Erreur lors de la creation du compte")>>
                   ELSE <<Msg("success", "Compte cree et profil enregistre. Verifiez votre e-mail si necessaire.")>>
        /\ accounts' = IF accepted
                       THEN accounts \cup {[id |-> NewUserId, email |-> CanonEmail(email),
                                            password |-> password]}
                       ELSE accounts
        /\ utilisateurs' = IF inserts /\ insertOk THEN utilisateurs \cup {row}
                           ELSE utilisateurs
        /\ UNCHANGED <<page, user, menu, biens, locataires, contrats, paiements>>

----------------------------------------------------------------------------
(* logout_action *)

LogoutCompletesIfOk(signOutOk) == signOutOk

\* try: sign_out() except Exception: pass -- the lines after it always run
LogoutCompletes(signOutOk) == TRUE

LogoutPageAuth == "auth"

LogoutPage == "accueil"

\* A run with the sidebar button "Deconnexion" pressed.
Logout(signOutOk) ==
    /\ ~rerun
    /\ RenderedView(page, user) = "app"
    /\ "btn_logout" \in buttons
    /\ pdf' = None
    /\ req' = [button |-> "btn_logout", form |-> <<>>]
    /\ view' = "app"
    /\ buttons' = {"btn_logout"}
    /\ calls' = <<Call("auth.sign_out", <<>>, signOutOk)>>
    /\ IF LogoutCompletes(signOutOk)
       THEN /\ user' = None
            /\ page' = LogoutPage
            /\ msgs' = <<Msg("success", "Deconnecte.")>>
            /\ rerun' = TRUE
            /\ crashed' = FALSE
       ELSE /\ UNCHANGED <<user, page>>
            /\ msgs' = <<>>
            /\ rerun' = FALSE
            /\ crashed' = TRUE
    /\ UNCHANGED <<menu, stores>>


----------------------------------------------------------------------------
(* interface_kasa: rendering *)

\* select("*").eq("utilisateur_id", user["id"]) on biens
UserBiens(bs, uid) == SelectSeq(bs, LAMBDA b : b.utilisateur_id = uid)

Out(c, m, x, b) == [calls |-> c, msgs |-> m, crashed |-> x, buttons |-> b]

\* What a run of interface_kasa with no button pressed calls, says and displays
\* under menu m; ok1 and ok2 are the outcomes of its selects, in order.
AppRender(m, uid, ok1, ok2) ==
    LET selBiens == RenderCall("biens.select", uid, ok1)
        none     == UserBiens(biens, uid) = <<>>
    IN  CASE m = "Ajouter un bien" ->
               IF ~ok1 THEN Out(<<selBiens>>, <<>>, TRUE, {"btn_logout", "add_bien"})
               ELSE IF none
                    THEN Out(<<selBiens>>, <<Msg("info", "Aucun bien enregistre.")>>, FALSE,
                             {"btn_logout", "add_bien"})
               ELSE Out(<<selBiens>>, <<>>, FALSE, {"btn_logout", "add_bien", "del_bien_btn"})
          [] m = "Generer contrat" ->
               IF ~ok1 THEN Out(<<selBiens>>, <<>>, TRUE, {"btn_logout"})
               ELSE IF ~ok2
                    THEN Out(<<selBiens, RenderCall("locataires.select", uid, FALSE)>>,
                             <<>>, TRUE, {"btn_logout"})
               ELSE IF none
                    THEN Out(<<selBiens, RenderCall("locataires.select", uid, TRUE)>>,
                             <<Msg("warning", "Ajoutez au moins un bien avant de generer un contrat.")>>,
                             FALSE, {"btn_logout"})
               ELSE Out(<<selBiens, RenderCall("locataires.select", uid, TRUE)>>,
                        <<>>, FALSE, {"btn_logout", "gen_contrat"})
          [] m = "Suivi des loyers" ->
               IF ~ok1 THEN Out(<<selBiens>>, <<>>, TRUE, {"btn_logout"})
               ELSE IF none
                    THEN Out(<<selBiens>>, <<Msg("warning", "Ajoutez d'abord un bien.")>>,
                             FALSE, {"btn_logout"})
               ELSE IF ~ok2
                    THEN Out(<<selBiens, RenderCall("paiements.select", <<>>, FALSE)>>,
                             <<>>, TRUE, {"btn_logout", "suivi_save"})
               ELSE Out(<<selBiens, RenderCall("paiements.select", <<>>, TRUE)>>,
                        IF paiements = {}
                        THEN <<Msg("info", "Aucun paiement enregistre.")>> ELSE <<>>,
                        FALSE, {"btn_logout", "suivi_save"})
          [] OTHER ->
               IF ~ok1
               THEN Out(<<RenderCall("paiements.select", <<>>, FALSE)>>, <<>>, TRUE,
                        {"btn_logout"})
               ELSE Out(<<RenderCall("paiements.select", <<>>, TRUE)>>,
                        IF paiements = {}
                        THEN <<Msg("info", "Aucun paiement trouve.")>> ELSE <<>>,
                        FALSE, {"btn_logout"})

\* A run of main() with no button pressed: the run experimental_rerun() forces, or
\* a refresh in which the user may have picked another menu entry m.
Render(m, ok1, ok2) ==
    LET v   == RenderedView(page, user)
        \* interface_kasa reads user.get('email') first: an uncaught error on None
        out == IF v = "app" /\ user = None THEN Out(<<>>, <<>>, TRUE, {})
               ELSE IF v = "app" THEN AppRender(m, user[1].id, ok1, ok2)
               ELSE IF v = "accueil" THEN Out(<<>>, <<>>, FALSE, {"go_auth"})
               ELSE IF v = "auth" THEN Out(<<>>, <<>>, FALSE, AuthButtons)
               ELSE Out(<<>>, FallbackWarning(v), FALSE, AuthButtons)
    IN  /\ (rerun \/ v # "app") => m = menu
        /\ (v # "app") => (ok1 /\ ok2)
        /\ menu' = m
        /\ view' = v
        /\ rerun' = FALSE
        /\ req' = NoReq
        /\ calls' = out.calls
        /\ msgs' = out.msgs
        /\ crashed' = out.crashed
        /\ buttons' = out.buttons
        /\ pdf' = None
        /\ UNCHANGED <<page, user, stores>>

----------------------------------------------------------------------------
(* interface_kasa: "Ajouter un bien" *)

BienIds == {biens[i].id : i \in DOMAIN biens}

\* the id the record store gives the inserted row
NextBienId == CHOOSE n \in 1..(Len(biens) + 1) : n \notin BienIds

\* A run with "Ajouter le bien" pressed, then the list under it.
AjouterBien(nom_bien, insertOk, listOk) ==
    LET uid == user[1].id
        row == [id |-> NextBienId, utilisateur_id |-> uid, nom |-> nom_bien]
        ins == Call("biens.insert", [utilisateur_id |-> uid, nom |-> nom_bien], insertOk)
        sel == RenderCall("biens.select", uid, listOk)
    IN  /\ ~rerun
        /\ RenderedView(page, user) = "app"
        /\ menu = "Ajouter un bien"
        /\ "add_bien" \in buttons
        /\ pdf' = None
        /\ Len(biens) < MaxBiens
        /\ req' = [button |-> "add_bien", form |-> [nom_bien |-> nom_bien]]
        /\ view' = "app"
        /\ rerun' = FALSE
        /\ biens' = IF insertOk THEN Append(biens, row) ELSE biens
        /\ calls' = IF insertOk THEN <<ins, sel>> ELSE <<ins>>
        /\ msgs' = IF insertOk THEN <<Msg("success", "Bien ajoute")>> ELSE <<>>
        /\ crashed' = (~insertOk \/ ~listOk)
        /\ buttons' = IF insertOk /\ listOk
                      THEN {"btn_logout", "add_bien", "del_bien_btn"}
                      ELSE {"btn_logout", "add_bien"}
        /\ UNCHANGED <<page, user, menu, accounts, utilisateurs, locataires,
                       contrats, paiements>>

\* bid = next((b['id'] for b in biens if b['nom'] == to_delete), None)
FirstWithNom(bs, nom) ==
    LET hits == {i \in DOMAIN bs : bs[i].nom = nom}
    IN  bs[CHOOSE i \in hits : \A j \in hits : i <= j].id

\* A run with "Supprimer le bien" pressed: the list is selected first, and the
\* button is reached only when that select succeeds and is not empty.
SupprimerBien(to_delete, deleteOk) ==
    LET uid  == user[1].id
        mine == UserBiens(biens, uid)
        bid  == FirstWithNom(mine, to_delete)
        sel  == RenderCall("biens.select", uid, TRUE)
    IN  /\ ~rerun
        /\ RenderedView(page, user) = "app"
        /\ menu = "Ajouter un bien"
        /\ "del_bien_btn" \in buttons
        /\ pdf' = None
        /\ to_delete \in {mine[i].nom : i \in DOMAIN mine}
        /\ req' = [button |-> "del_bien_btn", form |-> [to_delete |-> to_delete]]
        /\ view' = "app"
        /\ buttons' = {"btn_logout", "add_bien", "del_bien_btn"}
        /\ calls' = <<sel, Call("biens.delete", bid, deleteOk)>>
        /\ biens' = IF deleteOk THEN SelectSeq(biens, LAMBDA b : b.id # bid) ELSE biens
        /\ msgs' = IF deleteOk THEN <<Msg("success", "Bien supprime.")>> ELSE <<>>
        /\ rerun' = deleteOk
        /\ crashed' = ~deleteOk
        /\ UNCHANGED <<page, user, menu, accounts, utilisateurs, locataires,
                       contrats, paiements>>


----------------------------------------------------------------------------
(* safe_text_for_pdf, generate_pdf_bytes *)

\* unicodedata.normalize("NFC", s): a letter and the combining accent after it
\* become the composed letter
NFC(s) ==
    LET combining == {i \in 2..Len(s) : s[i] = "U+0301" /\ s[i - 1] = "e"}
        kept      == SelectSeq([i \in DOMAIN s |-> i], LAMBDA i : i \notin combining)
    IN  [k \in DOMAIN kept |->
            IF kept[k] + 1 \in combining THEN "U+00E9" ELSE s[kept[k]]]

\* the four replace() of line 27
StraightQuote(c) ==
    CASE c \in {"U+2019", "U+2018"} -> "'"
      [] c \in {"U+201C", "U+201D"} -> "\""
      [] OTHER -> c

\* None and "" are both the empty text; nothing follows the comment of line 28
safe_text_for_pdf(s) ==
    LET normalized == NFC(s)
    IN  [i \in DOMAIN normalized |-> StraightQuote(normalized[i])]

\* the tokens above U+00FF, which the latin-1 codec cannot encode
NonLatin1 == {"U+2018", "U+2019", "U+201C", "U+201D", "U+0153", "U+0301"}

Encodable(s) == \A i \in DOMAIN s : s[i] \notin NonLatin1

\* Whether generate_pdf_bytes returns (TRUE) or raises (FALSE). The fpdf
\* library decides what becomes of a body character outside Latin-1 before
\* line 77 encodes the output; it is not part of the source, so both outcomes
\* are kept.
GenerateOutcomes(content_safe) == IF Encodable(content_safe) THEN {TRUE} ELSE BOOLEAN

Document(content_safe, pdfOk) == Some([content_safe |-> content_safe, ok |-> pdfOk])

----------------------------------------------------------------------------
(* upload_pdf_to_supabase *)

UploadOutcomes == {"ok", "upload_fail", "url_fail"}

\* path = f"{auth_user_id}/{safe_name}"
StoragePath(filename, auth_user_id) ==
    auth_user_id \o <<"/">> \o sanitize_filename(filename)

PublicUrl(path) == <<"https://kasa_storage/">> \o path

UploadCallsRetry(path, up) ==
    CASE up = "ok" -> <<Call("storage.upload", path, TRUE),
                        Call("storage.get_public_url", path, TRUE)>>
      [] up = "upload_fail" -> <<Call("storage.upload", path, FALSE),
                                 Call("storage.upload", path, FALSE)>>
      [] OTHER -> <<Call("storage.upload", path, TRUE),
                    Call("storage.get_public_url", path, FALSE)>>

\* The object-store calls of one upload_pdf_to_supabase: the upload, then the
\* public url when the upload did not raise.
UploadCalls(path, up) ==
    CASE up = "ok" -> <<Call("storage.upload", path, TRUE),
                        Call("storage.get_public_url", path, TRUE)>>
      [] up = "upload_fail" -> <<Call("storage.upload", path, FALSE)>>
      [] OTHER -> <<Call("storage.upload", path, TRUE),
                    Call("storage.get_public_url", path, FALSE)>>

\* url after the try/except around upload_pdf_to_supabase (None: it raised)
UploadedUrl(path, up) == IF up = "ok" THEN Some(PublicUrl(path)) ELSE None

\* The module never imports uuid: str(uuid.uuid4()) raises NameError.
UuidImported == FALSE

\* The outcomes of an insert that builds its row with uuid4: none is drawn when
\* the insert is never reached.
InsertOutcomes == IF UuidImported THEN BOOLEAN ELSE {TRUE}

Uuid4(table) == <<"uuid", ToString(Cardinality(table) + 1)>>

----------------------------------------------------------------------------
(* interface_kasa: "Suivi des loyers" *)

\* filename = f"quittance_{mois}_{annee}_{sanitize_filename(locataire)}.pdf"
QuittanceFilename(mois, annee, locataire) ==
    <<"quittance_">> \o mois \o <<"_", ToString(annee), "_">>
        \o sanitize_filename(locataire) \o <<".pdf">>

PaiementRow(mois, annee, montant, statut, url) ==
    [id |-> Uuid4(paiements), contrat_id |-> None, mois |-> mois, annee |-> annee,
     montant |-> montant, statut |-> statut, quittance_url |-> url]

\* quittance_txt: its fixed text and the fields typed in the form
QuittanceTxt(locataire, montant, mois, annee) ==
    <<"QUITTANCE DE LOYER reconnais avoir recu de : ">> \o locataire
        \o <<" au titre du loyer du mois de ">> \o mois

\* A run with "Enregistrer paiement" pressed: the page's select of biens, the
\* handler (receipt, upload, insert), then the list of payments under it. When
\* generate_pdf_bytes raises, the run ends there with an uncaught exception.
EnregistrerPaiement(locataire, mois, annee, montant, statut, pdfOk, up, insertOk, listOk) ==
    LET uid      == user[1].id
        content_safe == safe_text_for_pdf(QuittanceTxt(locataire, montant, mois, annee))
        path     == StoragePath(QuittanceFilename(mois, annee, locataire), uid)
        url      == UploadedUrl(path, up)
        row      == PaiementRow(mois, annee, montant, statut, url)
        inserted == pdfOk /\ UuidImported /\ insertOk
    IN  /\ ~rerun
        /\ RenderedView(page, user) = "app"
        /\ menu = "Suivi des loyers"
        /\ "suivi_save" \in buttons
        /\ Cardinality(paiements) < MaxRows
        /\ pdfOk \in GenerateOutcomes(content_safe)
        /\ pdf' = Document(content_safe, pdfOk)
        /\ req' = [button |-> "suivi_save",
                   form |-> [locataire |-> locataire, mois |-> mois, annee |-> annee,
                             montant |-> montant, statut |-> statut]]
        /\ view' = "app"
        /\ buttons' = {"btn_logout", "suivi_save"}
        /\ rerun' = FALSE
        /\ calls' = IF ~pdfOk THEN <<RenderCall("biens.select", uid, TRUE)>>
                    ELSE
                    <<RenderCall("biens.select", uid, TRUE)>>
                    \o UploadCalls(path, up)
                    \o (IF UuidImported THEN <<Call("paiements.insert", row, insertOk)>>
                        ELSE <<>>)
                    \o <<RenderCall("paiements.select", <<>>, listOk)>>
        /\ msgs' = IF ~pdfOk THEN <<>>
                   ELSE
                   (IF up = "ok" THEN <<>> ELSE <<Msg("error", "Erreur upload quittance")>>)
                   \o (IF inserted THEN <<>>
                       ELSE <<Msg("warning", "Erreur insertion paiement")>>)
                   \o <<Msg("success", "Paiement enregistre.")>>
                   \o (IF Truthy(url) THEN <<Msg("link", "Telecharger la quittance")>>
                       ELSE <<>>)
        /\ paiements' = IF inserted THEN paiements \cup {row} ELSE paiements
        /\ crashed' = (~pdfOk \/ ~listOk)
        /\ UNCHANGED <<page, user, menu, accounts, utilisateurs, biens, locataires,
                       contrats>>

----------------------------------------------------------------------------
(* interface_kasa: "Generer contrat" *)

\* filename = f"contrat_{sanitize_filename(selected_bien_name)}_{now:%Y%m%d%H%M%S}.pdf"
ContratFilename(selected_bien_name) ==
    <<"contrat_">> \o sanitize_filename(selected_bien_name)
        \o <<"_", "20250301120000", ".pdf">>

\* res_loc.data of the lookup by owner and name
KnownLocataires(uid, nom_loc) ==
    {l \in locataires : l.utilisateur_id = uid /\ l.nom = nom_loc}

Step(c, f, l, k) == [calls |-> c, failed |-> f, locataires |-> l, contrats |-> k]

\* The try block of lines 338-370: the tenant lookup-or-insert, then the insert
\* of the contract; failed when an exception reached its except clause.
ContratRecordStep(uid, bien_id, nom_loc, lookupOk, insLocOk, insConOk) ==
    LET lookup  == Call("locataires.select", [utilisateur_id |-> uid, nom |-> nom_loc],
                        lookupOk)
        known   == KnownLocataires(uid, nom_loc)
        newLoc  == [id |-> Uuid4(locataires), utilisateur_id |-> uid, nom |-> nom_loc]
        loc_id  == IF nom_loc = <<>> THEN None
                   ELSE IF known # {} THEN (CHOOSE l \in known : TRUE).id
                   ELSE newLoc.id
        conRow  == [id |-> Uuid4(contrats), bien_id |-> bien_id, locataire_id |-> loc_id]
        insLoc  == Call("locataires.insert", newLoc, insLocOk)
        insCon  == Call("contrats.insert", conRow, insConOk)
        conStep == IF ~UuidImported THEN Step(<<>>, TRUE, {}, {})
                   ELSE Step(<<insCon>>, ~insConOk, {}, IF insConOk THEN {conRow} ELSE {})
    IN  IF nom_loc = <<>> THEN conStep
        ELSE IF ~lookupOk THEN Step(<<lookup>>, TRUE, {}, {})
        ELSE IF known # {}
             THEN Step(<<lookup>> \o conStep.calls, conStep.failed, {}, conStep.contrats)
        ELSE IF ~UuidImported THEN Step(<<lookup>>, TRUE, {}, {})
        ELSE IF ~insLocOk THEN Step(<<lookup, insLoc>>, TRUE, {}, {})
        ELSE Step(<<lookup, insLoc>> \o conStep.calls, conStep.failed, {newLoc},
                  conStep.contrats)

\* content: its fixed text and the tenant's name typed in the form
ContratContent(nom_loc) ==
    <<"CONTRAT DE BAIL D'HABITATION Le Locataire Nom : ">> \o nom_loc

\* A run with "Generer contrat PDF" pressed: the page's two selects, then the
\* handler (contract, upload, record step). When generate_pdf_bytes raises, the
\* run ends there with an uncaught exception.
GenererContrat(selected_bien_name, nom_loc, pdfOk, up, lookupOk, insLocOk, insConOk) ==
    LET uid   == user[1].id
        content_safe == safe_text_for_pdf(ContratContent(nom_loc))
        mine  == UserBiens(biens, uid)
        \* bien_map = {b['nom']: b for b in biens}: the last bien of that name
        hits  == {i \in DOMAIN mine : mine[i].nom = selected_bien_name}
        selected_bien == mine[CHOOSE i \in hits : \A j \in hits : j <= i]
        path  == StoragePath(ContratFilename(selected_bien_name), uid)
        url   == UploadedUrl(path, up)
        step  == ContratRecordStep(uid, selected_bien.id, nom_loc, lookupOk,
                                   insLocOk, insConOk)
    IN  /\ ~rerun
        /\ RenderedView(page, user) = "app"
        /\ menu = "Generer contrat"
        /\ "gen_contrat" \in buttons
        /\ Cardinality(contrats) < MaxRows
        /\ selected_bien_name \in {mine[i].nom : i \in DOMAIN mine}
        /\ pdfOk \in GenerateOutcomes(content_safe)
        /\ pdf' = Document(content_safe, pdfOk)
        /\ req' = [button |-> "gen_contrat",
                   form |-> [selected_bien_name |-> selected_bien_name,
                             nom_loc |-> nom_loc]]
        /\ view' = "app"
        /\ buttons' = {"btn_logout", "gen_contrat"}
        /\ rerun' = FALSE
        /\ crashed' = ~pdfOk
        /\ calls' = <<RenderCall("biens.select", uid, TRUE),
                      RenderCall("locataires.select", uid, TRUE)>>
                    \o (IF pdfOk THEN UploadCalls(path, up) \o step.calls ELSE <<>>)
        /\ msgs' = IF ~pdfOk THEN <<>>
                   ELSE
                   (IF up = "ok" THEN <<>> ELSE <<Msg("error", "Erreur upload quittance")>>)
                   \o (IF step.failed
                       THEN <<Msg("warning", "Contrat non insere en base")>> ELSE <<>>)
                   \o <<Msg("success", "Contrat genere.")>>
                   \o (IF Truthy(url) THEN <<Msg("link", "Telecharger le contrat")>>
                       ELSE <<>>)
        /\ locataires' = IF pdfOk THEN locataires \cup step.locataires ELSE locataires
        /\ contrats' = IF pdfOk THEN contrats \cup step.contrats ELSE contrats
        /\ UNCHANGED <<page, user, menu, accounts, utilisateurs, biens, paiements>>

----------------------------------------------------------------------------
(* The session *)

Next ==
    \/ GoAuth
    \/ \E m \in Menus, ok1, ok2 \in BOOLEAN : Render(m, ok1, ok2)
    \/ \E email \in Emails, password \in Passwords, profOk \in BOOLEAN :
         \E auth_res \in {AuthRaise} \cup SignInAnswers(email, password) :
            Login(email, password, auth_res, profOk)
    \/ \E nom \in Noms, prenom \in Prenoms, email \in Emails, password \in NewPasswords,
          insertOk \in BOOLEAN :
         \E auth_res \in {AuthRaise} \cup
                (IF Registered(email) = {}
                 THEN SignUpAnswers([id |-> NewUserId, email |-> CanonEmail(email)])
                 ELSE {}) :
            Signup(nom, prenom, email, password, auth_res, insertOk)
    \/ \E signOutOk \in BOOLEAN : Logout(signOutOk)
    \/ \E nom_bien \in BienNoms, insertOk, listOk \in BOOLEAN :
         AjouterBien(nom_bien, insertOk, listOk)
    \/ \E to_delete \in BienNoms, deleteOk \in BOOLEAN : SupprimerBien(to_delete, deleteOk)
    \/ \E locataire \in LocataireNoms, mois \in MoisChoisis, annee \in Annees,
          montant \in Montants, statut \in Statuts, pdfOk \in BOOLEAN,
          up \in UploadOutcomes, insertOk \in InsertOutcomes, listOk \in BOOLEAN :
         EnregistrerPaiement(locataire, mois, annee, montant, statut, pdfOk, up,
                             insertOk, listOk)
    \/ \E selected_bien_name \in BienNoms, nom_loc \in LocataireNoms,
          pdfOk \in BOOLEAN, up \in UploadOutcomes, lookupOk \in BOOLEAN,
          insLocOk \in InsertOutcomes, insConOk \in InsertOutcomes :
         GenererContrat(selected_bien_name, nom_loc, pdfOk, up, lookupOk, insLocOk,
                        insConOk)

Spec == Init /\ [][Next]_vars

\* The values the page field takes: Home, the auth page, the app.
Pages == {"accueil", "auth", "app"}

\* The session as a first run of main() may find it: lines 116-119 set user and
\* page only when the session state does not hold them yet, so the router is
\* taken through every page value with no identity.
InitRouter ==
    /\ page \in Pages
    /\ user = None
    /\ menu = "Ajouter un bien"
    /\ view = "none"
    /\ buttons = {}
    /\ rerun = TRUE
    /\ req = NoReq
    /\ calls = <<>>
    /\ msgs = <<>>
    /\ crashed = FALSE
    /\ accounts = {}
    /\ utilisateurs = {}
    /\ biens = <<>>
    /\ locataires = {}
    /\ contrats = {}
    /\ paiements = {}
    /\ pdf = None

SpecRouter == InitRouter /\ [][Next]_vars

----------------------------------------------------------------------------
(* Properties *)

HandlerCalls(cs) == SelectSeq(cs, LAMBDA c : c.by = "handler")

Failed(cs) == {i \in DOMAIN cs : ~cs[i].ok}

Kinds(ms) == {ms[i].kind : i \in DOMAIN ms}

\* C1: in every run from the initial session, main() renders the authenticated
\* interface (calls interface_kasa) only when the session identity is not empty.
C1_AppOnlyWithIdentity == [][view' = "app" => user # None]_vars

C1_Witness == view = "app" /\ user # None /\ req.button = "none" /\ ~crashed

\* C2: the session starts on Home with no identity, and the page field changes
\* only from Home to the auth page on the user's request, from the auth page to
\* the app on a verified login that sets the identity, and from the app to Home
\* on logout, which clears the identity.
C2_PageTransitions ==
    /\ page = "accueil" /\ user = None
    /\ [][page' # page =>
            \/ /\ page = "accueil" /\ page' = "auth"
               /\ req'.button = "go_auth"
            \/ /\ page = "auth" /\ page' = "app"
               /\ req'.button = "l_submit"
               /\ calls'[1].op = "auth.sign_in_with_password" /\ calls'[1].ok
               /\ Verified(req'.form.email, req'.form.password) # {}
               /\ user = None /\ user' # None
            \/ /\ page = "app" /\ page' = "accueil"
               /\ req'.button = "btn_logout"
               /\ user # None /\ user' = None]_vars

C2_Witness == page = "accueil" /\ req.button = "btn_logout" /\ accounts # {}

\* C3: after logout_action the identity is empty and the page is Home whether
\* or not the provider's sign_out call failed, the run does not end in an
\* error, and no error or warning message is shown.
C3_LogoutAlwaysClears ==
    req.button = "btn_logout" =>
        /\ user = None
        /\ page = "accueil"
        /\ ~crashed
        /\ Kinds(msgs) = {"success"}

C3_Witness == req.button = "btn_logout" /\ ~calls[1].ok /\ user = None

\* the provider rejected the login of the last run: the call raised, or its
\* answer holds no user object
LoginRejected(r, cs) ==
    /\ r.button = "l_submit"
    /\ cs # <<>>
    /\ cs[1].op = "auth.sign_in_with_password"
    /\ (~cs[1].ok \/ LoginUserObj(cs[1].res) = None)

\* C4: a login attempt the provider rejects, by raising or by answering with no
\* user object, leaves the identity unset and the page field as they were.
C4_RejectedLoginFrame ==
    [][LoginRejected(req', calls') => user' = user /\ user' = None /\ page' = page]_vars

C4_Witness ==
    /\ LoginRejected(req, calls)
    /\ calls[1].ok
    /\ accounts # {}
    /\ Kinds(msgs) = {"error"}

\* the last run was a login the provider accepted and that set the identity
LoginAccepted == req.button = "l_submit" /\ rerun /\ user # None

\* C5 as first stated: after an accepted login the identity's email is exactly
\* the email submitted in the form.
C5_EmailIsSubmitted == LoginAccepted => user[1].email = req.form.email

\* C5 as amended: after an accepted login the identity's email is exactly the
\* email of the user object the provider answered with, and its id that
\* object's id.
C5_EmailIsProviders ==
    LoginAccepted =>
        /\ user[1].email = LoginUserObj(calls[1].res)[1].email
        /\ user[1].id = LoginUserObj(calls[1].res)[1].id

C5_Witness == LoginAccepted /\ user[1].email # req.form.email

\* the last run was a signup with the four fields filled that the provider accepted
SignupAccepted ==
    /\ req.button = "s_submit"
    /\ req.form.nom # "" /\ req.form.prenom # ""
    /\ req.form.email # <<>> /\ req.form.password # ""
    /\ calls # <<>>
    /\ calls[1].op = "auth.sign_up" /\ calls[1].ok

ProfileInserts == {i \in DOMAIN calls : calls[i].op = "utilisateurs.insert"}

EmptyField(r) ==
    \/ /\ r.button = "s_submit"
       /\ (r.form.nom = "" \/ r.form.prenom = "" \/ r.form.email = <<>>
             \/ r.form.password = "")
    \/ /\ r.button = "l_submit"
       /\ (r.form.email = <<>> \/ r.form.password = "")

\* C7: a signup with any of its four fields empty, or a login with its email or
\* password empty, shows one validation error, calls neither the identity
\* provider nor the record store, and leaves identity, page and the stores as
\* they were.
C7_ValidationFirst ==
    [][EmptyField(req') =>
          /\ calls' = <<>>
          /\ Len(msgs') = 1 /\ msgs'[1].kind = "error"
          /\ UNCHANGED <<page, user, stores>>]_vars

C7_Witness ==
    /\ req.button = "l_submit"
    /\ req.form.email # <<>> /\ req.form.password = ""
    /\ calls = <<>>

\* C8: whenever a collaborator call of a page handler fails, the run shows an
\* error or warning message and returns normally, with no uncaught error, and
\* identity and page are as they were.
C8_FailuresNeverCrash ==
    [][(\E i \in Failed(calls') : calls'[i].op # "auth.sign_out") =>
          /\ ~crashed'
          /\ Kinds(msgs') \cap {"error", "warning"} # {}
          /\ UNCHANGED <<page, user>>]_vars

MultiStep == req.button \in {"gen_contrat", "suivi_save"}

StorageOps == {"storage.upload", "storage.get_public_url"}

\* C9 as first stated: in generate contract and record payment no collaborator
\* call of the action follows a failed one, and no call is made twice.
C9_AbortAtFirstFailure ==
    MultiStep =>
        LET h == HandlerCalls(calls)
        IN  /\ \A i, j \in DOMAIN h : i < j => h[i].ok
            /\ \A i, j \in DOMAIN h : i # j => h[i].op # h[j].op

\* C9 as amended: a failed object-store call is reported with an error message
\* and the action goes on to its record-store step; a failed record-store call
\* is followed by no other call of the action; no call is made twice.
C9_AbortInRecordStep ==
    MultiStep =>
        LET h == HandlerCalls(calls)
        IN  /\ \A i, j \in DOMAIN h :
                  (i < j /\ ~h[i].ok) => (h[i].op \in StorageOps /\ h[j].op \notin StorageOps)
            /\ \A i, j \in DOMAIN h : i # j => h[i].op # h[j].op
            /\ (\E i \in DOMAIN h : h[i].op \in StorageOps /\ ~h[i].ok)
                  => "error" \in Kinds(msgs)

C9_Witness ==
    /\ req.button = "gen_contrat"
    /\ LET h == HandlerCalls(calls)
       IN  /\ Len(h) = 2
           /\ h[1].op = "storage.upload" /\ ~h[1].ok
           /\ h[2].op = "locataires.select"

\* the last run recorded a payment and the object store and the record store
\* accepted every call of the run
PaymentAccepted == req.button = "suivi_save" /\ Failed(calls) = {} /\ ~crashed

\* C10: a recorded payment whose calls the stores accept makes exactly one
\* upload, at {identity id}/quittance_{month}_{year}_{sanitized tenant}.pdf, and
\* exactly one insert of a payment carrying the selected month, year, amount and
\* status and the url of the uploaded receipt.
C10_OneUploadOneRecord ==
    PaymentAccepted =>
        LET h    == HandlerCalls(calls)
            ups  == {i \in DOMAIN h : h[i].op = "storage.upload"}
            ins  == {i \in DOMAIN h : h[i].op = "paiements.insert"}
            f    == req.form
            path == user[1].id \o <<"/", "quittance_">> \o f.mois
                      \o <<"_", ToString(f.annee), "_">>
                      \o sanitize_filename(f.locataire) \o <<".pdf">>
        IN  /\ Cardinality(ups) = 1
            /\ \A i \in ups : h[i].arg = path
            /\ Cardinality(ins) = 1
            /\ \A i \in ins :
                  /\ h[i].arg.mois = f.mois /\ h[i].arg.annee = f.annee
                  /\ h[i].arg.montant = f.montant /\ h[i].arg.statut = f.statut
                  /\ h[i].arg.quittance_url = Some(PublicUrl(path))

\* the page field is in the authenticated-app state and the identity is empty
FallbackCase == page \notin {"accueil", "auth"} /\ user = None

Accented == {"U+00E9", "U+00FB"}

Unsafe == {" ", "/", "\\", "*", "?", "'", "\""} \cup Accented

\* the file name of the last run as its fields give it, before any sanitizing
RawFilename ==
    IF req.button = "suivi_save"
    THEN <<"quittance_">> \o req.form.mois \o <<"_", ToString(req.form.annee), "_">>
            \o req.form.locataire \o <<".pdf">>
    ELSE <<"contrat_">> \o req.form.selected_bien_name \o <<"_", "20250301120000", ".pdf">>

\* C12: the path segment upload_pdf_to_supabase sends after the owner id holds no
\* space, path separator, wildcard, single or double quote or accented letter:
\* it is the file name built from the fields with each such character replaced
\* by "_".
C12_SafePathSegment ==
    \A i \in DOMAIN calls :
        calls[i].op = "storage.upload" =>
            LET arg == calls[i].arg
                seg == SubSeq(arg, Len(user[1].id) + 2, Len(arg))
            IN  /\ \A k \in DOMAIN seg : seg[k] \notin Unsafe
                /\ seg = [k \in DOMAIN RawFilename |->
                            IF RawFilename[k] \in Unsafe THEN "_" ELSE RawFilename[k]]

\* C13: safe_text_for_pdf returns for every input and its result holds only
\* characters the single-byte Latin encoding represents, every other code point
\* having been replaced, so generate_pdf_bytes never fails on a body character.
C13_BodyIsLatin1 ==
    pdf # None => (Encodable(pdf[1].content_safe) /\ pdf[1].ok)

=============================================================================
